---- MODULE Spec2Model ----
(***************************************************************************)
(* Model of the training driver train_discriminator.py: the chunked        *)
(* training loop with its NaN guard, learning-rate schedule, periodic      *)
(* validation, periodic checkpoint, resume from a checkpoint, and the      *)
(* prefetch buffers between the data feeds and the loop.                    *)
(* Model of the layers of nn_planet.py: the shape inference and the forward *)
(* computation of the aggregation, major-exclusivity and masked mean pool   *)
(* layers.                                                                  *)
(***************************************************************************)
EXTENDS Integers, Sequences, FiniteSets, TLC

\* ------------------------------------------------------------------ bounds
MaxChunks == 3          \* largest config().max_nchunks explored
MaxEvery == 3           \* largest validate_every / save_every explored
MaxBatches == 2         \* largest config().nbatches_chunk explored
MaxValidFeed == 3       \* chunks yielded by the validation feed, at most
MaxRuns == 2            \* processes launched: the fresh run and its resumes
LongFeed == 130         \* a training feed longer than the prefetch buffer
MaxRank == 4            \* largest rank of a layer input explored
MaxDim == 2             \* largest dimension of a layer input explored
MaxVal == 3             \* largest element of a layer input explored
MaxChunkSize == 3       \* largest number of samples of a chunk explored
MaxBatchSize == 2       \* largest config().batch_size explored

\* ------------------------------------------------------- program constants
TrainBufferSizeBad == 128 + 1
TrainBufferSize == 128
ValidBufferSize == 2
ReportEvery == 10

\* ------------------------------------------------------------------ floats
\* A float is a pair <<n, d>>: the rational n/d in lowest terms when d > 0,
\* and the IEEE specials when d = 0.
NaN == <<0, 0>>
PosInf == <<1, 0>>
NegInf == <<-1, 0>>
Fin(n) == <<n, 1>>

Abs(n) == IF n < 0 THEN -n ELSE n

RECURSIVE GCD(_, _)
GCD(a, b) == IF b = 0 THEN a ELSE GCD(b, a % b)

Reduce(n, d) == LET g == GCD(Abs(n), d) IN <<n \div g, d \div g>>

isnan(x) == x = NaN

\* product of the denominators of the finite entries s[1..i]
RECURSIVE DenProd(_, _)
DenProd(s, i) == IF i = 0 THEN 1 ELSE s[i][2] * DenProd(s, i - 1)

\* sum of the finite entries s[1..i] as a numerator over the denominator den
RECURSIVE NumSum(_, _, _)
NumSum(s, i, den) ==
    IF i = 0 THEN 0
    ELSE s[i][1] * (den \div s[i][2]) + NumSum(s, i - 1, den)

\* np.mean of a list of scalars: the mean of the empty list is nan, a nan
\* entry or infinities of both signs give nan, an infinity gives itself
npmean(s) ==
    LET idx == 1..Len(s) IN
    IF Len(s) = 0 THEN NaN
    ELSE IF \E i \in idx : s[i] = NaN THEN NaN
    ELSE IF \E i \in idx : s[i] = PosInf
         THEN (IF \E i \in idx : s[i] = NegInf THEN NaN ELSE PosInf)
    ELSE IF \E i \in idx : s[i] = NegInf THEN NegInf
    ELSE Reduce(NumSum(s, Len(s), DenProd(s, Len(s))),
                DenProd(s, Len(s)) * Len(s))

\* np.isnan(a).any() for an array given as a sequence
anynan(a) == \E i \in 1..Len(a) : isnan(a[i])

\* np.float32 of a rate given in units of 1e-7: integers keep 24 bits of
\* mantissa, ties go to the even mantissa
RECURSIVE Ulp(_)
Ulp(n) == IF n < 16777216 THEN 1 ELSE 2 * Ulp(n \div 2)

float32(n) ==
    LET u == Ulp(n)
        q == n \div u
        r == n % u
    IN  IF 2 * r < u THEN q * u
        ELSE IF 2 * r > u THEN (q + 1) * u
        ELSE IF q % 2 = 0 THEN q * u ELSE (q + 1) * u

\* ----------------------------------------------------------- configuration
\* The kinds of result of the compiled training step: finite, a NaN in one of
\* its three outputs, an infinity in one of them.
NaNKinds == {"nan_loss", "nan_loss2", "nan_pred"}
InfKinds == {"inf_loss", "inf_loss2", "inf_pred"}

\* the step at which the execution graph of a configuration returns its
\* infinity, if it returns one: (chunk index, minibatch)
InfStep == <<1, 0>>

\* rate scheduled at chunk index k (units of 1e-7); the rate of key 2 is not
\* a float32
RateOf(k) == IF k = 0 THEN 1000000 ELSE IF k = 2 THEN 16777217 ELSE 100000 - k

ScheduleKeySets == { {0}, {0, 1}, {0, 2, 3} }
Schedules == { [k \in K |-> RateOf(k)] : K \in ScheduleKeySets }

Configs ==
    [ max_nchunks : {MaxChunks},
      validate_every : 1..MaxEvery,
      save_every : 1..MaxEvery,
      nbatches_chunk : {1, MaxBatches},
      learning_rate_schedule : Schedules,
      inf_kind : {"ok"} \cup InfKinds,
      train_feed : {MaxChunks - 1, MaxChunks + 1},
      valid_feed : {0, MaxValidFeed},
      batch_size : {1} ]

\* the configurations whose runs are followed to their end
FairConfigs ==
    [ max_nchunks : {MaxChunks},
      validate_every : 1..MaxEvery,
      save_every : 1..MaxEvery,
      nbatches_chunk : {1, MaxBatches},
      learning_rate_schedule : {[k \in {0, 1} |-> RateOf(k)]},
      inf_kind : {"ok"} \cup InfKinds,
      train_feed : {MaxChunks - 1, MaxChunks + 1},
      valid_feed : {0, MaxValidFeed},
      batch_size : {1} ]

\* the configurations with a training feed longer than its prefetch buffer
LongConfigs ==
    [ max_nchunks : {2},
      validate_every : {1},
      save_every : {2},
      nbatches_chunk : {1},
      learning_rate_schedule : {[k \in {0} |-> RateOf(k)]},
      inf_kind : {"ok"},
      train_feed : {1, LongFeed},
      valid_feed : {MaxValidFeed},
      batch_size : {1} ]

\* the configurations whose periodic report is reached, with chunks and
\* minibatches of several sizes
ScoreConfigs ==
    [ max_nchunks : {ReportEvery},
      validate_every : {4},
      save_every : {3},
      nbatches_chunk : {1, MaxBatches},
      learning_rate_schedule : {[k \in {0} |-> RateOf(k)]},
      inf_kind : {"ok"},
      train_feed : {ReportEvery - 1, ReportEvery},
      valid_feed : {1},
      batch_size : 1..MaxBatchSize ]

VARIABLES
    cfg,                 \* config(): the configuration the runs share
    run,                 \* number of the running process (its expid)
    files,               \* files[r]: content of metadata_path of run r
    resume_metadata,     \* <<record>> loaded on resume, <<>> in a fresh run
    params,              \* parameter values of model.l_out
    learning_rate,       \* the shared learning-rate cell
    start_chunk_idx, chunk_idxs, it, chunk_idx, b, pc,
    losses_eval_train, losses_eval_valid,
    losses_eval_train2, losses_eval_valid2,
    tmp_preds, tmp_gts,
    tmp_losses_train, tmp_losses_train2, tmp_preds_train, tmp_gts_train,
    losses_train_print, losses_train_print2, preds_train_print,
    gts_train_print,
    tmp_losses_valid, tmp_losses_valid2, tmp_preds_valid, tmp_gts_valid,
    x_shared,            \* inputs of the chunk loaded on the device
    y_shared,            \* targets of the chunk loaded on the device
    chunk_size,          \* number of samples of a chunk of the data feeds
    train_produced, train_buf,   \* training feed position, prefetch buffer
    valid_produced, valid_buf,   \* validation feed position, prefetch buffer
    loss, loss2, pred,   \* outputs of the last compiled step
    processed,           \* chunk indices whose loop body this run entered
    layer,               \* the nn_planet layer under construction
    x_in, mask_in,       \* values of its input tensor and of its mask
    output_shape,        \* result of its get_output_shape_for
    output               \* result of its get_output_for

confVars == <<cfg, chunk_size>>
graphVars == <<layer, x_in, mask_in, output_shape, output>>
stepVars == <<loss, loss2, pred>>
logVars == <<processed>>
procVars == <<run, files, resume_metadata>>
loopVars == <<start_chunk_idx, chunk_idxs, it, chunk_idx, b, pc>>
cellVars == <<params, learning_rate, x_shared, y_shared>>
histVars == <<losses_eval_train, losses_eval_valid,
              losses_eval_train2, losses_eval_valid2>>
tmpTrainVars == <<tmp_losses_train, tmp_losses_train2, tmp_preds_train,
                  tmp_gts_train>>
allVars == <<tmp_preds, tmp_gts>>
printVars == <<losses_train_print, losses_train_print2, preds_train_print,
               gts_train_print>>
tmpValidVars == <<tmp_losses_valid, tmp_losses_valid2, tmp_preds_valid,
                  tmp_gts_valid>>
trainFeedVars == <<train_produced, train_buf>>
validFeedVars == <<valid_produced, valid_buf>>

vars == <<confVars, graphVars, stepVars, logVars, procVars, loopVars, cellVars, histVars, tmpTrainVars,
          allVars, printVars, tmpValidVars, trainFeedVars, validFeedVars>>

\* ----------------------------------------------------------------- helpers
\* Python 2 range(a, b) as a sequence
pyrangeBad(lo, hi) == [i \in 1..(IF hi >= lo THEN hi - lo + 1 ELSE 0) |-> lo + i - 1]
pyrange(lo, hi) == [i \in 1..(IF hi > lo THEN hi - lo ELSE 0) |-> lo + i - 1]

\* the chunk the feed yields at position k: (x, y, id), the samples numbered
\* along the feed
Chunk(k) ==
    [x |-> [i \in 1..chunk_size |-> (k - 1) * chunk_size + i],
     y |-> [i \in 1..chunk_size |-> (k - 1) * chunk_size + i],
     id |-> <<k>>]

\* the Python slice q[lo:hi]
pysliceBad(q, lo, hi) ==
    SubSeq(q, 1, IF hi - lo < Len(q) THEN hi - lo ELSE Len(q))
pyslice(q, lo, hi) == SubSeq(q, lo + 1, IF hi < Len(q) THEN hi ELSE Len(q))

\* get_output(model.l_out) on the inputs xs: one row per input, in order
Predictions(kind, xs) ==
    [i \in 1..Len(xs) |->
        IF i = 1 /\ kind = "nan_pred" THEN NaN
        ELSE IF i = 1 /\ kind = "inf_pred" THEN PosInf ELSE Fin(xs[i])]

\* utils.current_learning_rate: the value of the greatest key <= idx
current_learning_rate(schedule, idx) ==
    LET below == {k \in DOMAIN schedule : k <= idx}
        key == CHOOSE k \in below : \A j \in below : j <= k
    IN  schedule[key]

\* The compiled training step iter_train(b) on the chunk at index c: the
\* outputs [train_loss, train_loss2, get_output(l_out)] of a step whose
\* result is of the given kind, on the minibatch
\* x_shared[b * batch_size:(b + 1) * batch_size].
iter_train(kind, c, bb) ==
    LET pos == c * cfg.nbatches_chunk + bb IN
    [ loss |-> IF kind = "nan_loss" THEN NaN
               ELSE IF kind = "inf_loss" THEN PosInf ELSE Fin(pos + 1),
      loss2 |-> IF kind = "nan_loss2" THEN NaN
                ELSE IF kind = "inf_loss2" THEN NegInf ELSE Fin(2 * pos + 1),
      pred |-> Predictions(kind, pyslice(x_shared, bb * cfg.batch_size,
                                         (bb + 1) * cfg.batch_size)) ]

\* The compiled validation step iter_validate() on validation chunk k: a
\* deterministic function of the parameter values and the chunk.
iter_validate(p, k) ==
    [ loss |-> Fin(((p + k) % 3) + 1),
      loss2 |-> Fin((p % 2) + k),
      pred |-> Predictions("ok", Chunk(k).x) ]

\* the result kind the execution graph of the configuration gives the step,
\* unless the step diverges to a NaN
ScriptedKind(c, bb) == IF <<c, bb>> = InfStep THEN cfg.inf_kind ELSE "ok"

\* ------------------------------------------------------- checkpoint record
NoFile == <<>>

KeyOrder == <<"configuration_file", "git_revision_hash", "experiment_id",
              "chunks_since_start", "losses_eval_train", "losses_eval_valid",
              "losses_eval_train2", "losses_eval_valid2", "param_values">>

\* the dict handed to pickle.dump
Metadata ==
    [ configuration_file |-> "config_name",
      git_revision_hash |-> "revision",
      experiment_id |-> run,
      chunks_since_start |-> chunk_idx,
      losses_eval_train |-> losses_eval_train,
      losses_eval_valid |-> losses_eval_valid,
      losses_eval_train2 |-> losses_eval_train2,
      losses_eval_valid2 |-> losses_eval_valid2,
      param_values |-> params ]

\* pickle.dump: the dict written as its (key, value) items
dump(d) == [i \in 1..Len(KeyOrder) |-> <<KeyOrder[i], d[KeyOrder[i]]>>]

\* utils.load_pkl: the dict read back from the items
load_pkl(f) ==
    [k \in {f[i][1] : i \in 1..Len(f)} |->
        f[CHOOSE i \in 1..Len(f) : f[i][1] = k][2]]

\* ------------------------------------------------- nn_planet.py: tensors
\* A shape is a sequence of dimensions; axes are numbered from 0 as in
\* Python. The values of a tensor are kept flat, in row-major order.
Shapes(r) == [1..r -> 1..MaxDim]
AllShapes == UNION { Shapes(r) : r \in 1..MaxRank }

\* number of elements of a tensor of shape s
Size(s) ==
    LET F[j \in 1..(Len(s) + 1)] == IF j > Len(s) THEN 1 ELSE s[j] * F[j + 1]
    IN  F[1]

\* the axes kept by a reduction over the given axes, in order
KeptAxes(s, axes, i) ==
    LET F[j \in i..(Len(s) + 1)] ==
            IF j > Len(s) THEN <<>>
            ELSE IF (j - 1) \in axes THEN F[j + 1]
            ELSE <<s[j]>> \o F[j + 1]
    IN  F[i]

\* shape of T.sum / T.mean / T.prod of a tensor of shape s over the axes
ReduceShape(s, axes) == KeptAxes(s, axes, 1)

\* shape of the same reduction with keepdims=True
KeepdimsShape(s, axes) ==
    [j \in 1..Len(s) |-> IF (j - 1) \in axes THEN 1 ELSE s[j]]

\* the reduction is defined: every axis is an axis of the tensor
AxesValid(s, axes) == \A a \in axes : a < Len(s)

\* shape of an elementwise operation between tensors of shapes s and t:
\* the shapes are aligned on the right, a dimension of 1 is stretched
BroadcastShape(s, t) ==
    LET r == IF Len(s) >= Len(t) THEN Len(s) ELSE Len(t)
        ds(j) == IF j > r - Len(s) THEN s[j - (r - Len(s))] ELSE 1
        dt(j) == IF j > r - Len(t) THEN t[j - (r - Len(t))] ELSE 1
    IN  [j \in 1..r |-> IF ds(j) = 1 THEN dt(j) ELSE ds(j)]

\* shape of T.concatenate([u, v]), along the default axis 0
ConcatenateShape(u, v) == <<u[1] + v[1]>> \o Tail(u)

\* results of a call: a value, or the exception the call raises
NoResult == [status |-> "none", shape |-> <<>>, data |-> <<>>]
Raised(e) == [status |-> e, shape |-> <<>>, data |-> <<>>]
Symbolic(s) == [status |-> "ok", shape |-> s, data |-> <<>>]
Evaluated(s, d) == [status |-> "ok", shape |-> s, data |-> d]

\* ------------------------------------------------ nn_planet.py: the layers
AssertingAggs == {"AggAllBenignExp", "AggAllBenignProd", "AggSoPP",
                  "AggMILLoss"}
AggClasses == AssertingAggs \cup {"LogMeanExp"}
LayerClasses == AggClasses \cup {"MajorExclusivityLayer",
                                 "MaskedMeanPoolLayer"}

NoLayer == [cls |-> "none", input_shape |-> <<>>, axis |-> 0, axes |-> {},
            apply_nl |-> TRUE, idx_major |-> 0]

\* no layer is under construction: the state of the graph in a training run
NoGraph ==
    /\ layer = NoLayer
    /\ x_in = <<>>
    /\ mask_in = <<>>
    /\ output_shape = NoResult
    /\ output = NoResult

\* the two assertions shared by the aggregation layers
AssertInstancesBad(s) == Len(s) = 3
AssertInstances(s) == Len(s) = 3 /\ s[3] = 1

\* get_output_shape_for of the layer l
get_output_shape_for(l) ==
    LET s == l.input_shape IN
    CASE l.cls \in {"AggAllBenignExp", "AggAllBenignProd", "AggSoPP"} ->
            IF AssertInstances(s) THEN Symbolic(<<s[1], 1>>)
            ELSE Raised("AssertionError")
      [] l.cls = "AggMILLoss" ->
            IF AssertInstances(s) THEN Symbolic(<<s[1], 2>>)
            ELSE Raised("AssertionError")
      [] l.cls = "LogMeanExp" ->
            IF Len(s) < 2 THEN Raised("IndexError")
            ELSE Symbolic(<<s[1], s[2]>>)
      [] l.cls = "MajorExclusivityLayer" ->
            IF Len(s) # 2 THEN Raised("AssertionError")
            ELSE IF ~(l.idx_major < s[2]) THEN Raised("AssertionError")
            ELSE Symbolic(s)
      [] l.cls = "MaskedMeanPoolLayer" ->
            Symbolic(SubSeq(s, 1, l.axis) \o <<1>>)
      [] OTHER -> NoResult

\* the names a function body of nn_planet.py can read: its local names and
\* the names bound at module level
ModuleNames == {"nn", "T", "np", "nonlinearities", "Conv2DDNNLayer",
                "lb_softplus", "highway_conv3", "heaviside", "tlogit",
                "texpit", "part_softmax", "Unbroadcast", "MultLayer",
                "ConstantLayer", "RepeatLayer", "AttentionLayer",
                "MaskedSTDPoolLayer", "NormalisationLayer", "HighwayLayer",
                "CastingLayer", "NormalCDFLayer"} \cup LayerClasses
NameBound(name, locals) == name \in locals \cup ModuleNames

\* quotient of two integers as a float
DivF(n, d) ==
    IF d # 0 THEN Reduce(n, d)
    ELSE IF n = 0 THEN NaN ELSE IF n > 0 THEN PosInf ELSE NegInf

\* sum of the integers of a sequence
SumSeq(q) ==
    LET F[j \in 1..(Len(q) + 1)] == IF j > Len(q) THEN 0 ELSE q[j] + F[j + 1]
    IN  F[1]

\* An element e of the input of AggAllBenignProd stands for the probability
\* e / ProbScale: it is that probability where the layer takes probabilities,
\* and the logit of that probability where the layer applies the sigmoid.
ProbScale == MaxVal + 1
sigmoid(e) == <<e, ProbScale>>

\* 1 - product of the probabilities of a row
OneMinusProd(q) ==
    LET den == Size([j \in 1..Len(q) |-> q[j][2]])
        num == Size([j \in 1..Len(q) |-> q[j][1]])
    IN  Reduce(den - num, den)

\* row bi (from 0) of the flat values x of a tensor of shape s
Row(s, x, bi) ==
    LET n == Size(s) \div s[1] IN [j \in 1..n |-> x[bi * n + j]]

\* MaskedMeanPoolLayer.get_output_for on input x of shape s = (B, S, F) and
\* mask m of shape (B, S)
MaskedMeanPool(l, x, m) ==
    LET s == l.input_shape
        F == Size(s) \div (s[1] * s[2])
        masked_input == [j \in 1..Size(s) |-> x[j] * m[((j - 1) \div F) + 1]]
    IN  Evaluated(KeepdimsShape(<<s[1], Size(s) \div s[1]>>, {l.axis}),
                  [bi \in 1..s[1] |->
                      DivF(SumSeq(Row(s, masked_input, bi - 1)),
                           SumSeq(Row(<<s[1], s[2]>>, m, bi - 1)))])

\* get_output_for of the layer l on the input x (and mask m)
get_output_for(l, x, m) ==
    LET s == l.input_shape IN
    CASE l.cls = "AggAllBenignExp" ->
            IF AxesValid(s, {1, 2}) THEN Symbolic(ReduceShape(s, {1, 2}))
            ELSE Raised("ValueError")
      [] l.cls = "AggAllBenignProd" ->
            IF ~NameBound("apply_nl", {"self", "input", "kwargs"})
            THEN Raised("NameError")
            ELSE IF ~AxesValid(s, {1, 2}) THEN Raised("ValueError")
            ELSE Evaluated(ReduceShape(s, {1, 2}),
                           [bi \in 1..s[1] |->
                               OneMinusProd([j \in 1..(Size(s) \div s[1]) |->
                                   sigmoid(Row(s, x, bi - 1)[j])])])
      [] l.cls = "AggSoPP" ->
            IF AxesValid(s, {1, 2})
            THEN Symbolic(ReduceShape(BroadcastShape(s, <<1>>), {1, 2}))
            ELSE Raised("ValueError")
      [] l.cls = "LogMeanExp" ->
            IF AxesValid(s, l.axes) THEN Symbolic(ReduceShape(s, l.axes))
            ELSE Raised("ValueError")
      [] l.cls = "AggMILLoss" ->
            IF AxesValid(s, {1})
            THEN Symbolic(ConcatenateShape(ReduceShape(s, {1}),
                                           ReduceShape(s, {1})))
            ELSE Raised("ValueError")
      [] l.cls = "MajorExclusivityLayer" ->
            IF Len(s) < 2 THEN Raised("IndexError")
            ELSE IF l.idx_major >= s[2] \/ l.idx_major < 0 - s[2]
            THEN Raised("IndexError")
            ELSE Symbolic(BroadcastShape(s, <<s[1], 1>> \o SubSeq(s, 3, Len(s))))
      [] l.cls = "MaskedMeanPoolLayer" -> MaskedMeanPool(l, x, m)
      [] OTHER -> NoResult

\* the layers constructed, with the values fed to them
DataBases == 1..MaxVal
Data(n, base, period) == [j \in 1..n |-> IF j % period = 0 THEN base ELSE 1]
\* a mask of n ones, with a zero at position hole if there is one
Mask(n, hole) == [j \in 1..n |-> IF j = hole THEN 0 ELSE 1]

Layers ==
    { [cls |-> c, input_shape |-> s, axis |-> 1, axes |-> {0, 1},
       apply_nl |-> nl, idx_major |-> k] :
         c \in LayerClasses, s \in AllShapes, nl \in BOOLEAN,
         k \in (0 - MaxDim - 1)..(MaxDim + 1) }

\* the construction parameters a class has
Constructible(l) ==
    /\ l.cls # "AggAllBenignProd" => l.apply_nl
    /\ l.cls # "MajorExclusivityLayer" => l.idx_major = 0
    /\ l.cls = "MaskedMeanPoolLayer" => Len(l.input_shape) = 3

\* ------------------------------------------------------------------ launch
\* State after lines 41-131 of a fresh run (restart_from_save unset).
FreshRun(c) ==
    /\ cfg = c
    /\ run = 1
    /\ files = <<NoFile>>
    /\ resume_metadata = <<>>
    /\ params = 0
    /\ learning_rate = float32(c.learning_rate_schedule[0])
    /\ start_chunk_idx = 0
    /\ chunk_idxs = pyrange(0, c.max_nchunks)
    /\ it = 1
    /\ chunk_idx = 0
    /\ b = 0
    /\ pc = "loop"
    /\ losses_eval_train = <<>>
    /\ losses_eval_valid = <<>>
    /\ losses_eval_train2 = <<>>
    /\ losses_eval_valid2 = <<>>
    /\ tmp_preds = <<>>
    /\ tmp_gts = <<>>
    /\ tmp_losses_train = <<>>
    /\ tmp_losses_train2 = <<>>
    /\ tmp_preds_train = <<>>
    /\ tmp_gts_train = <<>>
    /\ losses_train_print = <<>>
    /\ losses_train_print2 = <<>>
    /\ preds_train_print = <<>>
    /\ gts_train_print = <<>>
    /\ tmp_losses_valid = <<>>
    /\ tmp_losses_valid2 = <<>>
    /\ tmp_preds_valid = <<>>
    /\ tmp_gts_valid = <<>>
    /\ x_shared = <<>>
    /\ y_shared = <<>>
    /\ train_produced = 0
    /\ train_buf = <<>>
    /\ valid_produced = 0
    /\ valid_buf = <<>>
    /\ loss = Fin(0)
    /\ loss2 = Fin(0)
    /\ pred = <<>>
    /\ processed = <<>>

\* the feeds of a configuration whose chunks hold one minibatch per training
\* step of a chunk
FullChunks(c) == chunk_size = c.nbatches_chunk * c.batch_size

Init == NoGraph /\ \E c \in Configs : FreshRun(c) /\ FullChunks(c)

InitLong == NoGraph /\ \E c \in LongConfigs : FreshRun(c) /\ FullChunks(c)

InitFair == NoGraph /\ \E c \in FairConfigs : FreshRun(c) /\ FullChunks(c)

\* feeds with chunks of every size, whatever the minibatches of the
\* configuration
InitScore ==
    /\ NoGraph
    /\ \E c \in ScoreConfigs : FreshRun(c)
    /\ chunk_size \in 1..MaxChunkSize

\* The resume branch: the chunk index a resumed run starts at
ResumeStartBad(record) == record.chunks_since_start
ResumeStart(record) == record.chunks_since_start + 1

\* The resume branch: the rate the cell is set to
ResumeRateBad(record) ==
    float32(current_learning_rate(cfg.learning_rate_schedule, 0))
ResumeRate(record) ==
    float32(current_learning_rate(cfg.learning_rate_schedule,
                                  ResumeStart(record)))

\* The process is stopped (or has ended) and is launched again with
\* restart_from_save naming the checkpoint file of the run before: lines
\* 41-131 with the resume branch.
Restart ==
    /\ run < MaxRuns
    /\ files[run] # NoFile
    /\ LET record == load_pkl(files[run]) IN
        /\ resume_metadata' = <<record>>
        /\ params' = record.param_values
        /\ start_chunk_idx' = ResumeStart(record)
        /\ chunk_idxs' = pyrange(ResumeStart(record), cfg.max_nchunks)
        /\ learning_rate' = ResumeRate(record)
        /\ losses_eval_train' = record.losses_eval_train
        /\ losses_eval_valid' = record.losses_eval_valid
        /\ losses_eval_train2' = record.losses_eval_train2
        /\ losses_eval_valid2' = record.losses_eval_valid2
    /\ run' = run + 1
    /\ files' = Append(files, NoFile)
    /\ it' = 1
    /\ chunk_idx' = 0
    /\ b' = 0
    /\ pc' = "loop"
    /\ tmp_preds' = <<>>
    /\ tmp_gts' = <<>>
    /\ tmp_losses_train' = <<>>
    /\ tmp_losses_train2' = <<>>
    /\ tmp_preds_train' = <<>>
    /\ tmp_gts_train' = <<>>
    /\ losses_train_print' = <<>>
    /\ losses_train_print2' = <<>>
    /\ preds_train_print' = <<>>
    /\ gts_train_print' = <<>>
    /\ tmp_losses_valid' = <<>>
    /\ tmp_losses_valid2' = <<>>
    /\ tmp_preds_valid' = <<>>
    /\ tmp_gts_valid' = <<>>
    /\ x_shared' = <<>>
    /\ y_shared' = <<>>
    /\ train_produced' = 0
    /\ train_buf' = <<>>
    /\ valid_produced' = 0
    /\ valid_buf' = <<>>
    /\ processed' = <<>>
    /\ loss' = Fin(0)
    /\ loss2' = Fin(0)
    /\ pred' = <<>>
    /\ UNCHANGED <<confVars, graphVars>>

\* --------------------------------------------------------- prefetch buffers
\* buffered_gen_threaded(train_data_iterator.generate(), buffer_size=128):
\* the producer puts the next chunk of the feed, blocked while the buffer
\* is full.
TrainProduce ==
    /\ pc \notin {"done", "aborted"}
    /\ train_produced < cfg.train_feed
    /\ Len(train_buf) < TrainBufferSize
    /\ train_produced' = train_produced + 1
    /\ train_buf' = Append(train_buf, Chunk(train_produced + 1))
    /\ UNCHANGED <<stepVars, logVars, confVars, graphVars, procVars, loopVars, cellVars, histVars,
                   tmpTrainVars, allVars, printVars, tmpValidVars,
                   validFeedVars>>

\* buffered_gen_threaded(valid_data_iterator.generate(), buffer_size=2)
ValidProduce ==
    /\ pc = "valid_pass"
    /\ valid_produced < cfg.valid_feed
    /\ Len(valid_buf) < ValidBufferSize
    /\ valid_produced' = valid_produced + 1
    /\ valid_buf' = Append(valid_buf, Chunk(valid_produced + 1))
    /\ UNCHANGED <<stepVars, logVars, confVars, graphVars, procVars, loopVars, cellVars, histVars,
                   tmpTrainVars, allVars, printVars, tmpValidVars,
                   trainFeedVars>>

\* ------------------------------------------------------------ training loop
\* izip(chunk_idxs, ...) finds chunk_idxs exhausted: the loop ends
LoopEnd ==
    /\ pc = "loop"
    /\ it > Len(chunk_idxs)
    /\ pc' = "done"
    /\ UNCHANGED <<start_chunk_idx, chunk_idxs, it, chunk_idx, b>>
    /\ UNCHANGED <<stepVars, logVars, confVars, graphVars, procVars, cellVars, histVars, tmpTrainVars,
                   allVars, printVars, tmpValidVars, trainFeedVars,
                   validFeedVars>>

\* izip took the next index and finds the training feed exhausted: the loop
\* ends as well
FeedEnd ==
    /\ pc = "loop"
    /\ it <= Len(chunk_idxs)
    /\ train_buf = <<>>
    /\ train_produced = cfg.train_feed
    /\ it' = it + 1
    /\ pc' = "done"
    /\ UNCHANGED <<start_chunk_idx, chunk_idxs, chunk_idx, b>>
    /\ UNCHANGED <<stepVars, logVars, confVars, graphVars, procVars, cellVars, histVars, tmpTrainVars,
                   allVars, printVars, tmpValidVars, trainFeedVars,
                   validFeedVars>>

\* the rate of the cell once the body has looked the chunk index up in the
\* schedule
ScheduledRateBad(c) == learning_rate
ScheduledRate(c) ==
    IF c \in DOMAIN cfg.learning_rate_schedule
    THEN float32(cfg.learning_rate_schedule[c])
    ELSE learning_rate

\* Head of the loop body: the next index and the next buffered chunk, the
\* scheduled rate, the chunk loaded on the device, its targets accumulated.
ChunkStart ==
    /\ pc = "loop"
    /\ it <= Len(chunk_idxs)
    /\ train_buf # <<>>
    /\ LET c == chunk_idxs[it]
           chunk == Head(train_buf)
       IN /\ chunk_idx' = c
          /\ learning_rate' = ScheduledRate(c)
          /\ x_shared' = chunk.x
          /\ y_shared' = chunk.y
          /\ tmp_gts' = tmp_gts \o chunk.y
          /\ tmp_gts_train' = tmp_gts_train \o chunk.y
          /\ gts_train_print' = gts_train_print \o chunk.y
          /\ processed' = Append(processed, c)
    /\ train_buf' = Tail(train_buf)
    /\ it' = it + 1
    /\ b' = 0
    /\ pc' = "train"
    /\ UNCHANGED <<start_chunk_idx, chunk_idxs, params, train_produced,
                   tmp_preds, tmp_losses_train, tmp_losses_train2,
                   tmp_preds_train, losses_train_print, losses_train_print2,
                   preds_train_print>>
    /\ UNCHANGED <<stepVars, confVars, graphVars, procVars, histVars, tmpValidVars, validFeedVars>>

\* the guard of the training step: the step result stops the run
NanGuardBad(r) == FALSE
NanGuard(r) == anynan(r.pred) \/ isnan(r.loss) \/ isnan(r.loss2)

\* One pass of the minibatch loop: the compiled step (with its parameter
\* update), the guard, the accumulation.
TrainStep ==
    /\ pc = "train"
    /\ \E kind \in {ScriptedKind(chunk_idx, b)} \cup NaNKinds :
        LET r == iter_train(kind, chunk_idx, b) IN
        /\ loss' = r.loss
        /\ loss2' = r.loss2
        /\ pred' = r.pred
        /\ params' = params + 1
        /\ IF NanGuard(r)
           THEN /\ pc' = "aborted"
                /\ UNCHANGED <<b, tmpTrainVars, allVars, printVars>>
           ELSE /\ tmp_preds' = tmp_preds \o r.pred
                /\ tmp_preds_train' = tmp_preds_train \o r.pred
                /\ preds_train_print' = preds_train_print \o r.pred
                /\ tmp_losses_train' = Append(tmp_losses_train, r.loss)
                /\ tmp_losses_train2' = Append(tmp_losses_train2, r.loss2)
                /\ losses_train_print' = Append(losses_train_print, r.loss)
                /\ losses_train_print2' = Append(losses_train_print2, r.loss2)
                /\ b' = b + 1
                /\ pc' = IF b + 1 = cfg.nbatches_chunk THEN "report"
                         ELSE "train"
                /\ UNCHANGED <<tmp_gts, tmp_gts_train, gts_train_print>>
    /\ UNCHANGED <<cfg, graphVars, start_chunk_idx, chunk_idxs, it, chunk_idx,
                   learning_rate, x_shared, y_shared, chunk_size>>
    /\ UNCHANGED <<logVars, procVars, histVars, tmpValidVars, trainFeedVars,
                   validFeedVars>>

\* the periodic report and the reset of its rolling buffers
Report ==
    /\ pc = "report"
    /\ IF (chunk_idx + 1) % ReportEvery = 0
       THEN /\ preds_train_print' = <<>>
            /\ gts_train_print' = <<>>
            /\ losses_train_print' = <<>>
            /\ losses_train_print2' = <<>>
       ELSE UNCHANGED printVars
    /\ pc' = "validate"
    /\ UNCHANGED <<start_chunk_idx, chunk_idxs, it, chunk_idx, b>>
    /\ UNCHANGED <<stepVars, logVars, confVars, graphVars, procVars, cellVars, histVars, tmpTrainVars,
                   allVars, tmpValidVars, trainFeedVars, validFeedVars>>

\* the cadence tests of the validation block and of the checkpoint block
ValidateDueBad(c) == (c % cfg.validate_every) = 0
ValidateDue(c) == ((c + 1) % cfg.validate_every) = 0

SaveDueBad(c) == (c % cfg.save_every) = 0
SaveDue(c) == ((c + 1) % cfg.save_every) = 0

\* the block of the loop body that follows the head of the validation block:
\* the validation pass, which the body holds before its checkpoint block
AfterValidationHeadBad == "save"
AfterValidationHead == "valid_pass"

\* Head of the validation block: the mean train losses since the accumulators
\* were last emptied are appended, the accumulators emptied, the validation
\* feed opened.
Validate ==
    /\ pc = "validate"
    /\ IF ValidateDue(chunk_idx)
       THEN /\ losses_eval_train' =
                    Append(losses_eval_train, npmean(tmp_losses_train))
            /\ losses_eval_train2' =
                    Append(losses_eval_train2, npmean(tmp_losses_train2))
            /\ tmp_losses_train' = <<>>
            /\ tmp_losses_train2' = <<>>
            /\ tmp_preds_train' = <<>>
            /\ tmp_gts_train' = <<>>
            /\ tmp_losses_valid' = <<>>
            /\ tmp_losses_valid2' = <<>>
            /\ tmp_preds_valid' = <<>>
            /\ tmp_gts_valid' = <<>>
            /\ valid_produced' = 0
            /\ valid_buf' = <<>>
            /\ pc' = AfterValidationHead
       ELSE /\ pc' = "save"
            /\ UNCHANGED <<losses_eval_train, losses_eval_train2,
                           tmpTrainVars, tmpValidVars, validFeedVars>>
    /\ UNCHANGED <<start_chunk_idx, chunk_idxs, it, chunk_idx, b,
                   losses_eval_valid, losses_eval_valid2>>
    /\ UNCHANGED <<stepVars, logVars, confVars, graphVars, procVars, cellVars, allVars, printVars,
                   trainFeedVars>>

\* One pass of the validation loop over the next buffered validation chunk
ValidStep ==
    /\ pc = "valid_pass"
    /\ valid_buf # <<>>
    /\ LET chunk == Head(valid_buf)
           r == iter_validate(params, chunk.id[1])
       IN /\ x_shared' = chunk.x
          /\ y_shared' = chunk.y
          /\ tmp_gts_valid' = tmp_gts_valid \o chunk.y
          /\ tmp_preds_valid' = tmp_preds_valid \o r.pred
          /\ tmp_losses_valid' = Append(tmp_losses_valid, r.loss)
          /\ tmp_losses_valid2' = Append(tmp_losses_valid2, r.loss2)
          /\ pred' = r.pred
    /\ valid_buf' = Tail(valid_buf)
    /\ UNCHANGED <<params, learning_rate, valid_produced, loss, loss2>>
    /\ UNCHANGED <<logVars, confVars, graphVars, procVars, loopVars, histVars, tmpTrainVars,
                   allVars, printVars, trainFeedVars>>

\* The validation feed is exhausted: the mean validation losses are appended
ValidEnd ==
    /\ pc = "valid_pass"
    /\ valid_buf = <<>>
    /\ valid_produced = cfg.valid_feed
    /\ losses_eval_valid' = Append(losses_eval_valid, npmean(tmp_losses_valid))
    /\ losses_eval_valid2' =
            Append(losses_eval_valid2, npmean(tmp_losses_valid2))
    /\ pc' = "save"
    /\ UNCHANGED <<start_chunk_idx, chunk_idxs, it, chunk_idx, b,
                   losses_eval_train, losses_eval_train2>>
    /\ UNCHANGED <<stepVars, logVars, confVars, graphVars, procVars, cellVars, tmpTrainVars, allVars,
                   printVars, tmpValidVars, trainFeedVars, validFeedVars>>

\* The checkpoint block, the end of the loop body
Save ==
    /\ pc = "save"
    /\ IF SaveDue(chunk_idx)
       THEN files' = [files EXCEPT ![run] = dump(Metadata)]
       ELSE UNCHANGED files
    /\ pc' = "loop"
    /\ UNCHANGED <<run, resume_metadata, start_chunk_idx, chunk_idxs, it,
                   chunk_idx, b>>
    /\ UNCHANGED <<stepVars, logVars, confVars, graphVars, cellVars, histVars, tmpTrainVars, allVars,
                   printVars, tmpValidVars, trainFeedVars, validFeedVars>>

\* ----------------------------------------------------------- specifications
Next ==
    \/ TrainProduce
    \/ ValidProduce
    \/ LoopEnd
    \/ FeedEnd
    \/ ChunkStart
    \/ TrainStep
    \/ Report
    \/ Validate
    \/ ValidStep
    \/ ValidEnd
    \/ Save
    \/ Restart

Spec == Init /\ [][Next]_vars

\* the runs of the long-feed configurations
SpecLong == InitLong /\ [][Next]_vars

\* the runs that reach the periodic report
SpecScore == InitScore /\ [][Next]_vars

\* The loop thread and the two producer threads are scheduled by the
\* operating system: each runs again whenever it is not blocked.
LoopThread ==
    \/ LoopEnd
    \/ FeedEnd
    \/ ChunkStart
    \/ TrainStep
    \/ Report
    \/ Validate
    \/ ValidStep
    \/ ValidEnd
    \/ Save

FairSpec ==
    /\ InitFair
    /\ [][Next]_vars
    /\ WF_vars(LoopThread)
    /\ WF_vars(TrainProduce)
    /\ WF_vars(ValidProduce)

\* -------------------------------------------- nn_planet.py: specification
InitLayers ==
    /\ \E c \in LongConfigs : c.train_feed = 1 /\ FreshRun(c) /\ FullChunks(c)
    /\ \E l \in Layers, base \in DataBases, period \in 1..2 :
        /\ Constructible(l)
        /\ layer = l
        /\ x_in = Data(Size(l.input_shape), base, period)
        /\ \E hole \in 0..(IF l.cls = "MaskedMeanPoolLayer"
                           THEN l.input_shape[1] * l.input_shape[2] ELSE 0) :
              mask_in = IF l.cls = "MaskedMeanPoolLayer"
                        THEN Mask(l.input_shape[1] * l.input_shape[2], hole)
                        ELSE <<>>
        /\ output_shape = NoResult
        /\ output = NoResult

\* Lasagne asks the layer for its output shape when the graph is assembled
GetOutputShape ==
    /\ layer # NoLayer
    /\ output_shape' = get_output_shape_for(layer)
    /\ UNCHANGED <<layer, x_in, mask_in, output>>
    /\ UNCHANGED <<confVars, stepVars, logVars, procVars, loopVars, cellVars,
                   histVars, tmpTrainVars, allVars, printVars, tmpValidVars,
                   trainFeedVars, validFeedVars>>

\* lasagne.layers.get_output runs the forward computation of the layer
GetOutput ==
    /\ layer # NoLayer
    /\ output' = get_output_for(layer, x_in, mask_in)
    /\ UNCHANGED <<layer, x_in, mask_in, output_shape>>
    /\ UNCHANGED <<confVars, stepVars, logVars, procVars, loopVars, cellVars,
                   histVars, tmpTrainVars, allVars, printVars, tmpValidVars,
                   trainFeedVars, validFeedVars>>

NextLayers == GetOutputShape \/ GetOutput

\* the layers of nn_planet.py, each constructed on an input and asked for
\* its output shape and its output
SpecLayers == InitLayers /\ [][NextLayers]_vars

TypeOK ==
    /\ pc \in {"loop", "train", "report", "validate", "valid_pass", "save",
               "done", "aborted"}
    /\ run \in 1..MaxRuns
    /\ Len(files) = run

\* ------------------------------------------------------------------ claims
\* the loop thread takes a training step in this transition, and its result
StepTaken == pc = "train" /\ run' = run /\ params' # params
ResultTaken == [loss |-> loss', loss2 |-> loss2', pred |-> pred']

HasNaN(r) ==
    \/ r.loss = NaN
    \/ r.loss2 = NaN
    \/ \E i \in 1..Len(r.pred) : r.pred[i] = NaN

HasNonFinite(r) ==
    \/ r.loss[2] = 0
    \/ r.loss2[2] = 0
    \/ \E i \in 1..Len(r.pred) : r.pred[i][2] = 0

\* once aborted the run takes no step: only a new launch changes the state
AbortIsFinal == pc = "aborted" => run' = run + 1

\* C1 as stated: a training step whose loss, secondary loss or predictions
\* contain a NaN or an infinity aborts the run in that step, and an aborted
\* run takes no further step.
C1_NonFiniteAborts ==
    [][ /\ (StepTaken /\ HasNonFinite(ResultTaken)) => pc' = "aborted"
        /\ AbortIsFinal ]_vars

\* C1 amended: a training step aborts the run in that step exactly when its
\* loss, secondary loss or predictions contain a NaN; a step with an infinity
\* and no NaN is accumulated like any other; an aborted run takes no further
\* training step, validation pass or checkpoint.
C1_NaNAborts ==
    [][ /\ StepTaken => (pc' = "aborted" <=> HasNaN(ResultTaken))
        /\ AbortIsFinal ]_vars

\* a run aborted by a NaN in the second minibatch of a chunk
C1_Witness ==
    /\ pc = "aborted"
    /\ b = 1
    /\ loss = NaN \/ loss2 = NaN \/ pred = <<NaN>>

\* the record a resumed run was launched from
ResumeRecord == resume_metadata[1]

\* C2: a run resumed from the record written at chunk c iterates the chunk
\* indices c+1 .. max_nchunks-1, enters its first loop body at index c+1, and
\* starts with the parameter values and the four history lists of the record,
\* which are the values the saving run had when it wrote the record.
C2_RoundTrip ==
    /\ [][ /\ (run' = run /\ files' # files) =>
                LET rec == load_pkl(files'[run]) IN
                /\ rec.chunks_since_start = chunk_idx
                /\ rec.param_values = params
                /\ rec.losses_eval_train = losses_eval_train
                /\ rec.losses_eval_valid = losses_eval_valid
                /\ rec.losses_eval_train2 = losses_eval_train2
                /\ rec.losses_eval_valid2 = losses_eval_valid2
           /\ run' = run + 1 =>
                LET rec == load_pkl(files[run]) IN
                /\ resume_metadata' = <<rec>>
                /\ params' = rec.param_values
                /\ losses_eval_train' = rec.losses_eval_train
                /\ losses_eval_valid' = rec.losses_eval_valid
                /\ losses_eval_train2' = rec.losses_eval_train2
                /\ losses_eval_valid2' = rec.losses_eval_valid2 ]_vars
    /\ [](resume_metadata # <<>> =>
            LET c == ResumeRecord.chunks_since_start IN
            /\ chunk_idxs = [i \in 1..(cfg.max_nchunks - (c + 1)) |-> c + i]
            /\ processed # <<>> => processed[1] = c + 1
            /\ (processed = <<>> /\ pc = "loop") =>
                    /\ params = ResumeRecord.param_values
                    /\ losses_eval_train = ResumeRecord.losses_eval_train
                    /\ losses_eval_valid = ResumeRecord.losses_eval_valid
                    /\ losses_eval_train2 = ResumeRecord.losses_eval_train2
                    /\ losses_eval_valid2 = ResumeRecord.losses_eval_valid2)

\* a resumed run in the first training step of its first chunk, launched from
\* a record with a history
C2_Witness ==
    /\ run = 2
    /\ pc = "train"
    /\ b = 0
    /\ Len(processed) = 1
    /\ Len(ResumeRecord.losses_eval_valid) > 0

\* the schedule value of the greatest key <= c, as the float32 cell holds it
ActiveRate(c) ==
    LET keys == {k \in DOMAIN cfg.learning_rate_schedule : k <= c}
        key == CHOOSE k \in keys : \A j \in keys : j <= k
    IN  float32(cfg.learning_rate_schedule[key])

\* C3: during every training step of chunk c, in a fresh or a resumed run,
\* the learning-rate cell holds the schedule value of the greatest key <= c.
C3_ScheduledRate == pc = "train" => learning_rate = ActiveRate(chunk_idx)

\* a resumed run training a chunk that is not a key, at a rate other than the
\* initial one
C3_Witness ==
    /\ run = 2
    /\ pc = "train"
    /\ chunk_idx \notin DOMAIN cfg.learning_rate_schedule
    /\ learning_rate # float32(cfg.learning_rate_schedule[0])

\* the loop thread leaves the checkpoint block in this transition
SaveTaken == pc = "save" /\ pc' = "loop" /\ run' = run

\* C4: a checkpoint is written at the end of chunk c exactly when c+1 is a
\* multiple of save_every (the aborted chunk never gets there); the record
\* holds chunks_since_start = c, the four history lists and the parameter
\* values of that moment, and besides the configuration name, the revision
\* and the experiment id nothing else.
C4_CheckpointCadence ==
    [][ /\ (run' = run /\ files' # files) <=>
                (SaveTaken /\ (chunk_idx + 1) % cfg.save_every = 0)
        /\ (run' = run /\ files' # files) =>
                LET rec == load_pkl(files'[run]) IN
                /\ \A r \in 1..Len(files) : r # run => files'[r] = files[r]
                /\ DOMAIN rec = {"configuration_file", "git_revision_hash",
                                 "experiment_id", "chunks_since_start",
                                 "losses_eval_train", "losses_eval_valid",
                                 "losses_eval_train2", "losses_eval_valid2",
                                 "param_values"}
                /\ rec.chunks_since_start = chunk_idx
                /\ rec.losses_eval_train = losses_eval_train
                /\ rec.losses_eval_valid = losses_eval_valid
                /\ rec.losses_eval_train2 = losses_eval_train2
                /\ rec.losses_eval_valid2 = losses_eval_valid2
                /\ rec.param_values = params
        /\ pc = "aborted" => files' = files \/ run' # run ]_vars

\* a checkpoint of this run, written after a chunk that was also validated,
\* with the loop back at its head
C4_Witness ==
    /\ pc = "loop"
    /\ files[run] # NoFile
    /\ load_pkl(files[run]).chunks_since_start = chunk_idx
    /\ Len(load_pkl(files[run]).losses_eval_train) > 0

\* length of the history lists at the launch of the run
LaunchLen ==
    IF resume_metadata = <<>> THEN 0
    ELSE Len(ResumeRecord.losses_eval_train)

\* number of chunk indices c in lo..hi with c+1 a multiple of validate_every
DueCount(lo, hi) ==
    Cardinality({c \in lo..hi : (c + 1) % cfg.validate_every = 0})

HistLens ==
    <<Len(losses_eval_train), Len(losses_eval_train2),
      Len(losses_eval_valid), Len(losses_eval_valid2)>>

\* C5: the history lists grow by one entry each per chunk index c with c+1 a
\* multiple of validate_every and by nothing else: at the end of chunk c each
\* of the four lists holds its launch length plus the number of such indices
\* among the chunks of the run up to c, inside a chunk the number up to c-1;
\* during the validation pass the two train lists are already one ahead of
\* the two validation lists.
C5_ValidationCadence ==
    LET n0 == LaunchLen
        before == n0 + DueCount(start_chunk_idx, chunk_idx - 1)
        after == n0 + DueCount(start_chunk_idx, chunk_idx)
    IN
    /\ pc \in {"train", "report", "validate", "aborted"} /\ processed # <<>>
            => HistLens = <<before, before, before, before>>
    /\ pc = "valid_pass" =>
            /\ (chunk_idx + 1) % cfg.validate_every = 0
            /\ HistLens = <<after, after, before, before>>
    /\ pc = "save" \/ (pc \in {"loop", "done"} /\ processed # <<>>)
            => HistLens = <<after, after, after, after>>
    /\ processed = <<>> => HistLens = <<n0, n0, n0, n0>>
    /\ resume_metadata # <<>> =>
            /\ Len(ResumeRecord.losses_eval_train2) = n0
            /\ Len(ResumeRecord.losses_eval_valid) = n0
            /\ Len(ResumeRecord.losses_eval_valid2) = n0

\* a resumed run at the end of a chunk, two validation events after launch
C5_Witness ==
    /\ run = 2
    /\ pc = "save"
    /\ LaunchLen > 0
    /\ Len(losses_eval_valid2) = LaunchLen + 2

\* chunk indices the run is launched to process
Remaining ==
    IF cfg.max_nchunks > start_chunk_idx
    THEN cfg.max_nchunks - start_chunk_idx ELSE 0

\* C6 as stated: a run that ends without abort has processed every chunk
\* index from its start index to max_nchunks-1.
C6_AllChunksProcessed ==
    pc = "done" =>
        processed = [i \in 1..Remaining |-> start_chunk_idx + i - 1]

C6_Safety ==
    /\ start_chunk_idx =
            (IF resume_metadata = <<>> THEN 0
             ELSE ResumeRecord.chunks_since_start + 1)
    /\ \A i \in 1..Len(processed) :
            /\ processed[i] = start_chunk_idx + i - 1
            /\ processed[i] < cfg.max_nchunks
    /\ pc = "aborted" => (loss = NaN \/ loss2 = NaN \/ pred = <<NaN>>)
    /\ pc = "done" =>
            Len(processed) = (IF cfg.train_feed < Remaining
                              THEN cfg.train_feed ELSE Remaining)

\* C6 amended: the run processes the chunk indices from its start index (0,
\* or c+1 on resume) upwards, each exactly once, in increasing order, never
\* an index >= max_nchunks; only a NaN result aborts it; otherwise it ends
\* normally, having processed every index up to max_nchunks-1 when the
\* training feed yields at least that many chunks, and as many indices as the
\* feed yields chunks when the feed is shorter.
C6_ProcessesRange ==
    /\ []C6_Safety
    /\ <>[](pc \in {"done", "aborted"})

\* a resumed run that has ended normally after processing two chunks
C6_Witness ==
    /\ run = 2
    /\ pc = "done"
    /\ Len(processed) = 2
    /\ processed[2] = cfg.max_nchunks - 1

\* the history lists the run was launched with
LaunchHist ==
    IF resume_metadata = <<>> THEN <<<<>>, <<>>, <<>>, <<>>>>
    ELSE <<ResumeRecord.losses_eval_train, ResumeRecord.losses_eval_train2,
           ResumeRecord.losses_eval_valid, ResumeRecord.losses_eval_valid2>>

Hist ==
    <<losses_eval_train, losses_eval_train2,
      losses_eval_valid, losses_eval_valid2>>

\* the run was aborted by a NaN loss in its second training step, after a
\* first step with finite results
ScriptedAbort ==
    /\ pc = "aborted"
    /\ processed # <<>>
    /\ (Len(processed) - 1) * cfg.nbatches_chunk + b = 1
    /\ ScriptedKind(start_chunk_idx, 0) = "ok"
    /\ loss = NaN

\* C7 as stated: with the scripted losses [1.0, NaN, ...] the run aborts in
\* the chunk of the NaN step and no history list has got an entry.
C7_NoLeak ==
    ScriptedAbort =>
        /\ chunk_idx = start_chunk_idx + (1 \div cfg.nbatches_chunk)
        /\ Hist = LaunchHist

\* C7 amended: with the scripted losses [1.0, NaN, ...] the run aborts in the
\* chunk of the NaN step; no history list has got an entry, for every
\* save_every, unless the first step is the whole first chunk and validation
\* is due after it (nbatches_chunk = 1 and first chunk index + 1 a multiple
\* of validate_every): then each of the four lists has got the entry of that
\* chunk.
C7_NoLeakUnlessValidated ==
    ScriptedAbort =>
        /\ chunk_idx = start_chunk_idx + (1 \div cfg.nbatches_chunk)
        /\ IF cfg.nbatches_chunk = 1
              /\ (start_chunk_idx + 1) % cfg.validate_every = 0
           THEN /\ \A i \in 1..4 : Len(Hist[i]) = Len(LaunchHist[i]) + 1
                /\ losses_eval_train =
                      Append(LaunchHist[1], Fin(start_chunk_idx + 1))
           ELSE Hist = LaunchHist

\* the scripted abort with the pre-NaN step a chunk of its own, after which
\* a checkpoint was written and no validation was due
C7_Witness ==
    /\ ScriptedAbort
    /\ cfg.nbatches_chunk = 1
    /\ cfg.save_every = 1
    /\ cfg.validate_every = 2
    /\ Len(processed) = 2
    /\ files[run] # NoFile

\* the run is stopped right after the checkpoint of the chunk it just ended
\* and is launched again from it
ResumeAfterSave ==
    /\ run' = run + 1
    /\ pc = "loop"
    /\ processed # <<>>
    /\ load_pkl(files[run]).chunks_since_start = chunk_idx

\* C8 as stated: the rate set on resume from the checkpoint of chunk c is
\* the rate that was active during chunk c of the saving run.
C8_ResumeRateOfSavedChunk ==
    [][ ResumeAfterSave => learning_rate' = learning_rate ]_vars

\* C8 amended: the rate set on resume from the checkpoint of chunk c is the
\* schedule value of the greatest key <= c+1, the rate of chunk c+1; it is
\* the rate that was active during chunk c of the saving run exactly when
\* c+1 is not a key of the schedule or its value is that same rate.
C8_ResumeRateOfNextChunk ==
    [][ /\ run' = run + 1 =>
              learning_rate' =
                  ActiveRate(load_pkl(files[run]).chunks_since_start + 1)
        /\ ResumeAfterSave =>
              (learning_rate' = learning_rate <=>
                  \/ chunk_idx + 1 \notin DOMAIN cfg.learning_rate_schedule
                  \/ float32(cfg.learning_rate_schedule[chunk_idx + 1])
                        = learning_rate) ]_vars

\* a run just resumed at a chunk index that is a key of the schedule
C8_Witness ==
    /\ run = 2
    /\ pc = "loop"
    /\ processed = <<>>
    /\ start_chunk_idx \in DOMAIN cfg.learning_rate_schedule
    /\ start_chunk_idx < cfg.max_nchunks

\* The uninterrupted run with the step results of the script: the train
\* losses of the steps between validation event j-1 and validation event j
WindowLosses(j) ==
    [i \in 1..(cfg.validate_every * cfg.nbatches_chunk) |->
        LET c == (j - 1) * cfg.validate_every
                    + ((i - 1) \div cfg.nbatches_chunk)
            bb == (i - 1) % cfg.nbatches_chunk
        IN  iter_train(ScriptedKind(c, bb), c, bb).loss]

WindowLosses2(j) ==
    [i \in 1..(cfg.validate_every * cfg.nbatches_chunk) |->
        LET c == (j - 1) * cfg.validate_every
                    + ((i - 1) \div cfg.nbatches_chunk)
            bb == (i - 1) % cfg.nbatches_chunk
        IN  iter_train(ScriptedKind(c, bb), c, bb).loss2]

\* its validation losses at validation event j, the parameters having had
\* one update per training step
ValidLosses(j) ==
    [k \in 1..cfg.valid_feed |->
        iter_validate(j * cfg.validate_every * cfg.nbatches_chunk, k).loss]

\* the history lists hold the entries of the uninterrupted run
SameAsUninterrupted ==
    /\ \A j \in 1..Len(losses_eval_train) :
            losses_eval_train[j] = npmean(WindowLosses(j))
    /\ \A j \in 1..Len(losses_eval_train2) :
            losses_eval_train2[j] = npmean(WindowLosses2(j))
    /\ \A j \in 1..Len(losses_eval_valid) :
            losses_eval_valid[j] = npmean(ValidLosses(j))

\* the fresh run is the uninterrupted run
FreshIsUninterrupted == run = 1 => SameAsUninterrupted

\* C9 as stated: the history entries of a resumed run, and so the records
\* it writes, are those of the uninterrupted run with the same step results,
\* for every validate_every and save_every.
C9_ResumeEquivalent == run > 1 => SameAsUninterrupted

\* elements of the chunks held by a prefetch buffer, in order
BufferedIds(buf) == [i \in 1..Len(buf) |-> buf[i].id[1]]

\* C10: the training buffer never holds more than 128 chunks and the
\* validation buffer never more than 2; a producer cannot put into a full
\* buffer and the loop cannot take from an empty one while the feed has more
\* to yield; the chunks consumed so far followed by the chunks buffered are
\* the chunks produced so far, in production order, each once.
C10_Handoff ==
    /\ Len(train_buf) <= 128
    /\ Len(valid_buf) <= 2
    /\ Len(train_buf) = 128 => ~ENABLED TrainProduce
    /\ Len(valid_buf) = 2 => ~ENABLED ValidProduce
    /\ (pc = "loop" /\ it <= Len(chunk_idxs) /\ train_buf = <<>>
            /\ train_produced < cfg.train_feed) => ~ENABLED LoopThread
    /\ (pc = "valid_pass" /\ valid_buf = <<>>
            /\ valid_produced < cfg.valid_feed) => ~ENABLED LoopThread
    /\ tmp_gts \o BufferedIds(train_buf) = [i \in 1..train_produced |-> i]
    /\ train_produced <= cfg.train_feed
    /\ pc = "valid_pass" =>
            /\ tmp_gts_valid \o BufferedIds(valid_buf)
                    = [i \in 1..valid_produced |-> i]
            /\ valid_produced <= cfg.valid_feed

\* the training producer blocked on a full buffer while the loop, with the
\* validation buffer full as well, is in a validation pass
C10_Witness ==
    /\ Len(train_buf) = 128
    /\ train_produced < cfg.train_feed
    /\ pc = "valid_pass"
    /\ Len(valid_buf) = 2
    /\ tmp_gts # <<>>


\* ---------------------------------------------------- claims on nn_planet
\* an input shape of the form (batch, instances, 1)
InstancesShape(s) == Len(s) = 3 /\ s[3] = 1

\* the layer has been asked for its output shape / for its output
ShapeAsked == output_shape.status # "none"
OutputAsked == output.status # "none"

\* C11: for the noisy-OR exponential, power-mean, log-mean-exp (default
\* axes) and bag-level two-output layers, on every input of shape
\* (batch, instances, 1), the shape of the forward output equals the shape
\* that shape inference returns: (batch, 1), and (batch, 2) for the
\* two-output layer.
C11_ForwardShapeMatchesInference ==
    ( /\ layer.cls \in {"AggAllBenignExp", "AggSoPP", "LogMeanExp",
                        "AggMILLoss"}
      /\ InstancesShape(layer.input_shape)
      /\ ShapeAsked
      /\ OutputAsked )
    => /\ output_shape.status = "ok"
       /\ output.status = "ok"
       /\ output.shape = output_shape.shape
       /\ output.shape = <<layer.input_shape[1],
                           IF layer.cls = "AggMILLoss" THEN 2 ELSE 1>>

\* the major index names one of the classes of the input
ValidClassIndex(l) == 0 <= l.idx_major /\ l.idx_major < l.input_shape[2]

\* C12 as stated: shape inference of every aggregation layer (noisy-OR
\* exponential, noisy-OR product, power-mean, log-mean-exp, bag-level
\* two-output) fails with an assertion for every input shape not of the form
\* (batch, instances, 1); shape inference of the major-exclusivity layer
\* fails with an assertion for every input that is not 2-D and for every
\* major index that is not a valid class index.
C12_EveryLayerRejects ==
    ShapeAsked =>
      /\ ( /\ layer.cls \in {"AggAllBenignExp", "AggAllBenignProd", "AggSoPP",
                             "LogMeanExp", "AggMILLoss"}
           /\ ~InstancesShape(layer.input_shape) )
         => output_shape.status = "AssertionError"
      /\ ( /\ layer.cls = "MajorExclusivityLayer"
           /\ (Len(layer.input_shape) # 2 \/ ~ValidClassIndex(layer)) )
         => output_shape.status = "AssertionError"

\* C12, amended: shape inference of the noisy-OR exponential, noisy-OR
\* product, power-mean and bag-level two-output layers fails with an
\* assertion exactly for the input shapes not of the form
\* (batch, instances, 1); the log-mean-exp layer asserts nothing and returns
\* the first two dimensions of every input of rank 2 or more; the
\* major-exclusivity layer fails with an assertion exactly for the inputs
\* that are not 2-D and the major indices at or above the class count (a
\* negative index passes).
C12_AssertingLayersReject ==
    ShapeAsked =>
      /\ layer.cls \in {"AggAllBenignExp", "AggAllBenignProd", "AggSoPP",
                        "AggMILLoss"}
         => (output_shape.status = "AssertionError"
                <=> ~InstancesShape(layer.input_shape))
      /\ layer.cls = "LogMeanExp"
         => /\ output_shape.status # "AssertionError"
            /\ Len(layer.input_shape) >= 2
               => output_shape = Symbolic(SubSeq(layer.input_shape, 1, 2))
      /\ layer.cls = "MajorExclusivityLayer"
         => (output_shape.status = "AssertionError"
                <=> \/ Len(layer.input_shape) # 2
                    \/ layer.idx_major >= layer.input_shape[2])

\* an aggregation layer has rejected a 3-D input whose last dimension is not
\* 1, and the major-exclusivity layer an index equal to the class count
C12_Witness ==
    /\ ShapeAsked
    /\ output_shape.status = "AssertionError"
    /\ \/ /\ layer.cls = "AggSoPP"
          /\ Len(layer.input_shape) = 3
          /\ layer.input_shape[3] = 2
       \/ /\ layer.cls = "MajorExclusivityLayer"
          /\ Len(layer.input_shape) = 2
          /\ layer.idx_major = layer.input_shape[2]

\* the mask selects every step
AllOnes(m) == \A j \in 1..Len(m) : m[j] = 1

\* C13: masked mean pooling under an all-ones mask is the unmasked mean: on
\* an input of shape (batch, steps, features) pooled along axis 1 with a mask
\* of shape (batch, steps), the result of a batch row is the sum of its
\* steps * features pooled elements divided by the number of pooled elements.
C13_AllOnesMaskGivesMean ==
    ( /\ layer.cls = "MaskedMeanPoolLayer"
      /\ OutputAsked
      /\ AllOnes(mask_in) )
    => /\ output.status = "ok"
       /\ \A bi \in 1..layer.input_shape[1] :
            output.data[bi] =
                Reduce(SumSeq(Row(layer.input_shape, x_in, bi - 1)),
                       layer.input_shape[2] * layer.input_shape[3])

\* the per-instance probability the layer is constructed to use for the
\* element e: its sigmoid when apply_nl is set, the element as given otherwise
InstanceProbability(l, e) ==
    IF l.apply_nl THEN sigmoid(e) ELSE <<e, ProbScale>>

\* C14: the forward computation of the product noisy-OR layer, constructed
\* with apply_nl true or false, completes without error and returns for each
\* batch row 1 minus the product of the per-instance probabilities, the
\* construction flag deciding whether the sigmoid is applied.
C14_ProductForwardCompletes ==
    ( /\ layer.cls = "AggAllBenignProd"
      /\ InstancesShape(layer.input_shape)
      /\ OutputAsked )
    => /\ output.status = "ok"
       /\ \A bi \in 1..layer.input_shape[1] :
            output.data[bi] =
                OneMinusProd([j \in 1..layer.input_shape[2] |->
                    InstanceProbability(layer,
                        Row(layer.input_shape, x_in, bi - 1)[j])])


\* ------------------------------------------ claims on the training loop (2)
\* the loop is at the head of the validation block of a chunk whose index
\* triggers a validation event
AtValidationEvent ==
    pc = "validate" /\ (chunk_idx + 1) % cfg.validate_every = 0

\* C15: at every validation event, of a fresh or of a resumed run, the train
\* accumulators whose means are appended hold the loss of each training step
\* since the previous validation event of the logical run (the checkpointed
\* run and its resumptions), once each, and no loss from before it.
C15_WindowSinceLastValidation ==
    AtValidationEvent =>
        LET j == (chunk_idx + 1) \div cfg.validate_every IN
        /\ tmp_losses_train = WindowLosses(j)
        /\ tmp_losses_train2 = WindowLosses2(j)

\* C16: when a chunk triggers both a validation event and a checkpoint, the
\* validation pass is finished before the checkpoint is written: the four
\* lists of the record hold the entries of every validation event of the run
\* up to and including that chunk, the validation entry being the mean of
\* the validation pass just made; and no checkpoint holds lists that have
\* received only some of the four appends of a validation event.
C16_ValidationBeforeCheckpoint ==
    [][ (run' = run /\ files' # files) =>
            LET rec == load_pkl(files'[run])
                n == LaunchLen + DueCount(start_chunk_idx, chunk_idx)
            IN  /\ pc = "save"
                /\ Len(rec.losses_eval_train) = n
                /\ Len(rec.losses_eval_train2) = n
                /\ Len(rec.losses_eval_valid) = n
                /\ Len(rec.losses_eval_valid2) = n
                /\ (chunk_idx + 1) % cfg.validate_every = 0
                   => /\ valid_buf = <<>>
                      /\ valid_produced = cfg.valid_feed
                      /\ rec.losses_eval_valid[n] = npmean(tmp_losses_valid)
                      /\ rec.losses_eval_valid2[n] = npmean(tmp_losses_valid2)
      ]_vars

\* a checkpoint written at the end of a chunk that was also validated, with
\* a validation pass over a non-empty feed
C16_Witness ==
    /\ pc = "loop"
    /\ processed # <<>>
    /\ (chunk_idx + 1) % cfg.validate_every = 0
    /\ (chunk_idx + 1) % cfg.save_every = 0
    /\ files[run] # NoFile
    /\ load_pkl(files[run]).chunks_since_start = chunk_idx
    /\ Len(load_pkl(files[run]).losses_eval_valid) > 0
    /\ tmp_losses_valid # <<>>

\* the scoring function is about to be called by the periodic report, on
\* (gts_train_print, preds_train_print)
ReportScores == pc = "report" /\ (chunk_idx + 1) % ReportEvery = 0

\* the targets and the predictions have the same length and position by
\* position belong to the same sample (the prediction of a sample is the
\* output of the model on it, or an infinity)
Paired(gts, preds) ==
    /\ Len(gts) = Len(preds)
    /\ \A i \in 1..Len(gts) : preds[i] \in {Fin(gts[i]), PosInf, NegInf}

\* the minibatches of a chunk cover the chunk
ChunkCovered == chunk_size <= cfg.nbatches_chunk * cfg.batch_size

\* C17 as stated: whenever the scoring function is called (by the report
\* every 10 chunks, by the train scoring of a validation event) the targets
\* and the predictions accumulated have the same length and pair the same
\* samples, for every chunk size, batch_size and nbatches_chunk, in fresh
\* and in resumed runs.
C17_ScoredListsPaired ==
    /\ ReportScores => Paired(gts_train_print, preds_train_print)
    /\ AtValidationEvent => Paired(tmp_gts_train, tmp_preds_train)

\* C17, amended: whenever the scoring function is called, in fresh and in
\* resumed runs, the targets and the predictions accumulated have the same
\* length and pair the same samples provided the chunk size is at most
\* batch_size * nbatches_chunk; with larger chunks the predictions are fewer
\* than the targets.
C17_ScoredListsPairedIfCovered ==
    /\ ReportScores =>
        IF ChunkCovered THEN Paired(gts_train_print, preds_train_print)
        ELSE Len(preds_train_print) < Len(gts_train_print)
    /\ AtValidationEvent =>
        IF ChunkCovered THEN Paired(tmp_gts_train, tmp_preds_train)
        ELSE Len(tmp_preds_train) < Len(tmp_gts_train)

\* the report of chunk index 9 of a resumed run scores several chunks whose
\* last minibatch is shorter than batch_size
C17_Witness ==
    /\ ReportScores
    /\ run > 1
    /\ ChunkCovered
    /\ chunk_size % cfg.batch_size # 0
    /\ chunk_size > cfg.batch_size
    /\ Len(preds_train_print) > chunk_size
    /\ Paired(gts_train_print, preds_train_print)

====
